---- MODULE Spec2Model ----
(***************************************************************************)
(* Model of popgetter/__init__.py: the import-time assembly of the Dagster *)
(* Definitions object (assets, jobs, resources), followed by the           *)
(* operations available once the module is imported: calls of              *)
(* resources_by_env() and changes of the process environment.              *)
(***************************************************************************)
EXTENDS Integers, Sequences, FiniteSets, TLC

\* ------------------------------------------------------------------ bounds

\* Longest `countries` list explored.
MaxCountries == 2
\* Number of assets each asset module defines.
AssetsPerModule == 2

\* ----------------------------------------------------------- environment

EnvVars == {"ENV", "IGNORE_EXPERIMENTAL_WARNINGS"}

\* Values explored for each environment variable (absence is modelled by the
\* variable not being in the domain of `environ`, as in os.environ).
EnvValues ==
    [v \in EnvVars |->
        IF v = "ENV" THEN {"prod", "PROD", "production", ""}
                     ELSE {"", "0", "false"}]

AllEnvValues == UNION {EnvValues[v] : v \in EnvVars}

\* The possible contents of os.environ, restricted to the two variables read.
Environments ==
    {e \in UNION {[S -> AllEnvValues] : S \in SUBSET EnvVars} :
        \A v \in DOMAIN e : e[v] \in EnvValues[v]}

\* os.getenv(key): the value, or None (the empty option) when the key is absent.
getenv(env, key) == IF key \in DOMAIN env THEN <<env[key]>> ELSE <<>>

\* Mutant of IsProd: a case-insensitive comparison.
IsProdAnyCase(env) == getenv(env, "ENV") \in {<<"prod">>, <<"PROD">>}

\* os.getenv("ENV") == "prod"
IsProd(env) == getenv(env, "ENV") = <<"prod">>

\* ---------------------------------------------------------- warning filter

ExperimentalWarningFilter == [action |-> "ignore", category |-> "ExperimentalWarning"]

\* ------------------------------------------------------------------ assets

\* Country asset packages and the (module, name) pairs `countries` may hold.
CountryModules == {"bel", "uk"}
ReservedGroups == {"cloud_outputs", "azure_test"}
CountryEntries ==
    { <<"bel", "bel">>, <<"uk", "uk">>, <<"uk", "bel">>,
      <<"bel", "cloud_outputs">>, <<"uk", "azure_test">> }

RECURSIVE SeqsUpTo(_, _)
SeqsUpTo(S, n) ==
    IF n = 0 THEN { <<>> }
    ELSE LET shorter == SeqsUpTo(S, n - 1)
         IN  shorter \cup { Append(s, x) : s \in shorter, x \in S }

CountryLists == SeqsUpTo(CountryEntries, MaxCountries)

\* Mutant of load_assets: the group name is not applied to the loaded assets.
load_assets_ungrouped(module, group_name) ==
    [i \in 1..AssetsPerModule |-> [module |-> module, idx |-> i, group |-> "default"]]

\* load_assets_from_package_module(module, group_name=...) and
\* load_assets_from_modules([module], group_name=...): copies of the module's
\* assets with the group name set.
load_assets(module, group_name) ==
    [i \in 1..AssetsPerModule |-> [module |-> module, idx |-> i, group |-> group_name]]

RECURSIVE CountryAssets(_)
\* The nested comprehension over `countries`.
CountryAssets(cs) ==
    IF cs = <<>> THEN <<>>
    ELSE load_assets(Head(cs)[1], Head(cs)[2]) \o CountryAssets(Tail(cs))

\* Mutant of AllAssetsOf: the azure_test assets are loaded whatever the flag.
AllAssetsAlwaysAzure(cs, prod) ==
    CountryAssets(cs)
        \o load_assets("cloud_outputs", "cloud_outputs")
        \o load_assets("azure_test", "azure_test")

\* The value of `all_assets`.
AllAssetsOf(cs, prod) ==
    CountryAssets(cs)
        \o load_assets("cloud_outputs", "cloud_outputs")
        \o (IF prod THEN load_assets("azure_test", "azure_test") ELSE <<>>)

\* -------------------------------------------------------------------- jobs

\* Mutant of AssetSelection_groups: the shared outputs are always selected too.
AssetSelection_groups_shared(group) == [groups |-> {group, "cloud_outputs"}]

\* AssetSelection.groups(country_name)
AssetSelection_groups(group) == [groups |-> {group}]

\* Whether a groups selection selects an asset.
Matches(selection, asset) == asset.group \in selection.groups

\* define_asset_job(name=f"job_{country_name}", selection=..., description=...)
define_asset_job(country_name) ==
    [name        |-> "job_" \o country_name,
     selection   |-> AssetSelection_groups(country_name),
     description |-> "Downloads data for country '" \o country_name \o "'."]

\* Mutant of JobsOf: the job is built from the module rather than the name.
JobsOfModule(cs) == [i \in 1..Len(cs) |-> define_asset_job(cs[i][1])]

\* The value of `jobs`.
JobsOf(cs) == [i \in 1..Len(cs) |-> define_asset_job(cs[i][2])]

\* --------------------------------------------------------------- resources

AzureClasses ==
    {"AzureGeneralIOManager", "AzureGeoIOManager",
     "AzureMetadataIOManager", "AzureMetricsIOManager"}
LocalClasses ==
    {"LocalGeoIOManager", "LocalMetadataIOManager", "LocalMetricsIOManager"}

\* A constructed resource: its class and constructor arguments.
New(cls, args) == [cls |-> cls, args |-> args]

\* Mutant of resources_by_env: the two branches are swapped.
resources_by_env_swapped(prod) ==
    IF ~prod
    THEN ("metadata_io_manager" :> New("AzureMetadataIOManager", <<>>))
      @@ ("geometry_io_manager" :> New("AzureGeoIOManager", <<>>))
      @@ ("metrics_io_manager" :> New("AzureMetricsIOManager", <<>>))
      @@ ("azure_general_io_manager" :> New("AzureGeneralIOManager", <<".bin">>))
    ELSE ("metadata_io_manager" :> New("LocalMetadataIOManager", <<>>))
      @@ ("geometry_io_manager" :> New("LocalGeoIOManager", <<>>))
      @@ ("metrics_io_manager" :> New("LocalMetricsIOManager", <<>>))

\* Mutant of resources_by_env: the local branch also supplies a staging_res.
resources_by_env_staging(prod) ==
    IF prod
    THEN ("metadata_io_manager" :> New("AzureMetadataIOManager", <<>>))
      @@ ("geometry_io_manager" :> New("AzureGeoIOManager", <<>>))
      @@ ("metrics_io_manager" :> New("AzureMetricsIOManager", <<>>))
      @@ ("azure_general_io_manager" :> New("AzureGeneralIOManager", <<".bin">>))
    ELSE ("metadata_io_manager" :> New("LocalMetadataIOManager", <<>>))
      @@ ("geometry_io_manager" :> New("LocalGeoIOManager", <<>>))
      @@ ("metrics_io_manager" :> New("LocalMetricsIOManager", <<>>))
      @@ ("staging_res" :> New("StagingDirResource", <<"/tmp">>))

\* resources_by_env(), PROD being the module global it reads.
resources_by_env(prod) ==
    IF prod
    THEN ("metadata_io_manager" :> New("AzureMetadataIOManager", <<>>))
      @@ ("geometry_io_manager" :> New("AzureGeoIOManager", <<>>))
      @@ ("metrics_io_manager" :> New("AzureMetricsIOManager", <<>>))
      @@ ("azure_general_io_manager" :> New("AzureGeneralIOManager", <<".bin">>))
    ELSE ("metadata_io_manager" :> New("LocalMetadataIOManager", <<>>))
      @@ ("geometry_io_manager" :> New("LocalGeoIOManager", <<>>))
      @@ ("metrics_io_manager" :> New("LocalMetricsIOManager", <<>>))

\* The two resources built whatever the environment.
FixedResources ==
    ("pipes_subprocess_client" :> New("PipesSubprocessClient", <<>>))
 @@ ("staging_res" :> New("StagingDirResource", <<"popgetter/staging_dir">>))

\* Python's dict union a | b: on a shared key the right operand wins.
DictMerge(a, b) ==
    [k \in DOMAIN a \cup DOMAIN b |-> IF k \in DOMAIN b THEN b[k] ELSE a[k]]

\* The value of `resources`.
ResourcesOf(prod) == DictMerge(FixedResources, resources_by_env(prod))

Sensors == <<"metadata_sensor", "geometry_sensor", "metrics_sensor">>

\* Definitions(assets=, schedules=, sensors=, resources=, jobs=)
Definitions(assets, resmap, joblist) ==
    [assets |-> assets, schedules |-> <<>>, sensors |-> Sensors,
     resources |-> resmap, jobs |-> joblist]

\* ------------------------------------------------------------------- state

VARIABLES
    environ,          \* os.environ, restricted to EnvVars
    environAtImport,  \* os.environ as it was when the import started (history)
    countries,        \* popgetter.assets.countries
    pc,               \* index in ImportOrder of the next statement; past it: imported
    warnfilters,      \* warnings.filters entries installed by this module
    imported,         \* popgetter sub-modules imported so far
    bound,            \* module globals assigned so far
    PROD, all_assets, jobs, resources, defs,
    ret               \* result of the latest resources_by_env() call, if any

vars == <<environ, environAtImport, countries, pc, warnfilters, imported, bound,
          PROD, all_assets, jobs, resources, defs, ret>>

\* Mutant of ImportOrder: the warning filter is installed after the imports.
ImportOrderFilterLate ==
    <<"import_io_managers", "import_utils", "filterwarnings", "import_siblings",
      "import_countries", "PROD", "all_assets", "jobs", "def_resources_by_env",
      "resources", "defs">>

\* The module's top-level statements, in file order.
ImportOrder ==
    <<"filterwarnings", "import_io_managers", "import_utils", "import_siblings",
      "import_countries", "PROD", "all_assets", "jobs", "def_resources_by_env",
      "resources", "defs">>

At(stmt) == pc \in 1..Len(ImportOrder) /\ ImportOrder[pc] = stmt
Imported == pc = Len(ImportOrder) + 1

Init ==
    /\ environ \in Environments
    /\ environAtImport = environ
    /\ countries \in CountryLists
    /\ pc = 1
    /\ warnfilters = {}
    /\ imported = {}
    /\ bound = {}
    /\ PROD = FALSE
    /\ all_assets = <<>>
    /\ jobs = <<>>
    /\ resources = <<>>
    /\ defs = Definitions(<<>>, <<>>, <<>>)
    /\ ret = <<>>

\* if "IGNORE_EXPERIMENTAL_WARNINGS" in os.environ: warnings.filterwarnings(...)
FilterWarnings ==
    /\ At("filterwarnings")
    /\ warnfilters' = IF "IGNORE_EXPERIMENTAL_WARNINGS" \in DOMAIN environ
                      THEN warnfilters \cup {ExperimentalWarningFilter}
                      ELSE warnfilters
    /\ pc' = pc + 1
    /\ UNCHANGED <<environ, environAtImport, countries, imported, bound,
                   PROD, all_assets, jobs, resources, defs, ret>>

ImportStep(stmt, modules) ==
    /\ At(stmt)
    /\ imported' = imported \cup modules
    /\ pc' = pc + 1
    /\ UNCHANGED <<environ, environAtImport, countries, warnfilters, bound,
                   PROD, all_assets, jobs, resources, defs, ret>>

ImportIoManagers ==
    ImportStep("import_io_managers",
               {"popgetter.io_managers.azure", "popgetter.io_managers.local"})

ImportUtils == ImportStep("import_utils", {"popgetter.utils"})

ImportSiblings ==
    ImportStep("import_siblings", {"popgetter.azure_test", "popgetter.cloud_outputs"})

ImportCountries == ImportStep("import_countries", {"popgetter.assets"})

\* PROD = os.getenv("ENV") == "prod"
ReadEnv ==
    /\ At("PROD")
    /\ PROD' = IsProd(environ)
    /\ bound' = bound \cup {"PROD"}
    /\ pc' = pc + 1
    /\ UNCHANGED <<environ, environAtImport, countries, warnfilters, imported,
                   all_assets, jobs, resources, defs, ret>>

BuildAllAssets ==
    /\ At("all_assets")
    /\ all_assets' = AllAssetsOf(countries, PROD)
    /\ bound' = bound \cup {"all_assets"}
    /\ pc' = pc + 1
    /\ UNCHANGED <<environ, environAtImport, countries, warnfilters, imported,
                   PROD, jobs, resources, defs, ret>>

BuildJobs ==
    /\ At("jobs")
    /\ jobs' = JobsOf(countries)
    /\ bound' = bound \cup {"jobs"}
    /\ pc' = pc + 1
    /\ UNCHANGED <<environ, environAtImport, countries, warnfilters, imported,
                   PROD, all_assets, resources, defs, ret>>

\* def resources_by_env(): ...
DefResourcesByEnv ==
    /\ At("def_resources_by_env")
    /\ bound' = bound \cup {"resources_by_env"}
    /\ pc' = pc + 1
    /\ UNCHANGED <<environ, environAtImport, countries, warnfilters, imported,
                   PROD, all_assets, jobs, resources, defs, ret>>

BuildResources ==
    /\ At("resources")
    /\ resources' = ResourcesOf(PROD)
    /\ bound' = bound \cup {"resources"}
    /\ pc' = pc + 1
    /\ UNCHANGED <<environ, environAtImport, countries, warnfilters, imported,
                   PROD, all_assets, jobs, defs, ret>>

BuildDefs ==
    /\ At("defs")
    /\ defs' = Definitions(all_assets, resources, jobs)
    /\ bound' = bound \cup {"defs"}
    /\ pc' = pc + 1
    /\ UNCHANGED <<environ, environAtImport, countries, warnfilters, imported,
                   PROD, all_assets, jobs, resources, ret>>

\* Mutant of CallResourcesByEnv: the call reads ENV again.
CallResourcesByEnvRereads ==
    /\ Imported
    /\ ret' = <<resources_by_env(IsProd(environ))>>
    /\ UNCHANGED <<environ, environAtImport, countries, pc, warnfilters, imported,
                   bound, PROD, all_assets, jobs, resources, defs>>

\* Mutant of CallResourcesByEnv: the call stores its result into `resources`.
CallResourcesByEnvStores ==
    /\ Imported
    /\ ret' = <<resources_by_env(PROD)>>
    /\ resources' = resources_by_env(PROD)
    /\ UNCHANGED <<environ, environAtImport, countries, pc, warnfilters, imported,
                   bound, PROD, all_assets, jobs, defs>>

\* A call of resources_by_env() after the import.
CallResourcesByEnv ==
    /\ Imported
    /\ ret' = <<resources_by_env(PROD)>>
    /\ UNCHANGED <<environ, environAtImport, countries, pc, warnfilters, imported,
                   bound, PROD, all_assets, jobs, resources, defs>>

\* os.environ[key] = value, after the import.
SetEnv ==
    /\ Imported
    /\ \E key \in EnvVars : \E value \in EnvValues[key] :
          /\ getenv(environ, key) # <<value>>
          /\ environ' = [k \in DOMAIN environ \cup {key} |->
                            IF k = key THEN value ELSE environ[k]]
    /\ UNCHANGED <<environAtImport, countries, pc, warnfilters, imported, bound,
                   PROD, all_assets, jobs, resources, defs, ret>>

\* del os.environ[key], after the import.
UnsetEnv ==
    /\ Imported
    /\ \E key \in DOMAIN environ :
          environ' = [k \in DOMAIN environ \ {key} |-> environ[k]]
    /\ UNCHANGED <<environAtImport, countries, pc, warnfilters, imported, bound,
                   PROD, all_assets, jobs, resources, defs, ret>>

Next ==
    \/ FilterWarnings
    \/ ImportIoManagers
    \/ ImportUtils
    \/ ImportSiblings
    \/ ImportCountries
    \/ ReadEnv
    \/ BuildAllAssets
    \/ BuildJobs
    \/ DefResourcesByEnv
    \/ BuildResources
    \/ BuildDefs
    \/ CallResourcesByEnv
    \/ SetEnv
    \/ UnsetEnv

Spec == Init /\ [][Next]_vars

\* -------------------------------------------------------------- properties

IOManagerKeys == {"metadata_io_manager", "geometry_io_manager", "metrics_io_manager"}
FixedKeys == {"pipes_subprocess_client", "staging_res"}
ProdAtImport == getenv(environAtImport, "ENV") = <<"prod">>

\* The indices of the jobs whose selection selects asset a.
SelectingJobs(a) == {j \in 1..Len(jobs) : Matches(jobs[j].selection, a)}
\* The assets loaded for the i-th entry of `countries`.
EntryAssets(i) ==
    {load_assets(countries[i][1], countries[i][2])[n] : n \in 1..AssetsPerModule}
Elements(seq) == {seq[n] : n \in 1..Len(seq)}

\* C1: when ENV is exactly "prod" at import, the keys of `resources` are the
\* three IO managers, azure_general_io_manager, pipes_subprocess_client and
\* staging_res; every IO-manager key holds an Azure class and no key a Local one.
C1_ProdResources ==
    ("resources" \in bound /\ ProdAtImport) =>
        /\ DOMAIN resources = IOManagerKeys \cup {"azure_general_io_manager"} \cup FixedKeys
        /\ \A k \in IOManagerKeys \cup {"azure_general_io_manager"} :
              resources[k].cls \in AzureClasses
        /\ \A k \in DOMAIN resources : resources[k].cls \notin LocalClasses

C1_Witness ==
    /\ Imported
    /\ ProdAtImport
    /\ "azure_general_io_manager" \in DOMAIN defs.resources

\* C2: for every other ENV value (unset, "", "PROD", "production", ...) the keys
\* of `resources` are the three IO managers, pipes_subprocess_client and
\* staging_res; every IO-manager key holds a Local class and no key an Azure one.
C2_LocalResources ==
    ("resources" \in bound /\ ~ProdAtImport) =>
        /\ DOMAIN resources = IOManagerKeys \cup FixedKeys
        /\ \A k \in IOManagerKeys : resources[k].cls \in LocalClasses
        /\ \A k \in DOMAIN resources : resources[k].cls \notin AzureClasses

C2_Witness ==
    /\ Imported
    /\ getenv(environAtImport, "ENV") = <<"PROD">>
    /\ DOMAIN defs.resources = IOManagerKeys \cup FixedKeys

\* C3: `jobs` has as many elements as `countries`, and the i-th job is named
\* "job_" followed by the i-th entry's country name, for every ENV value and
\* every `countries` list (empty or with repeated names included).
C3_OneJobPerCountry ==
    "jobs" \in bound =>
        /\ Len(jobs) = Len(countries)
        /\ \A i \in 1..Len(countries) : jobs[i].name = "job_" \o countries[i][2]

C3_Witness ==
    /\ "jobs" \in bound
    /\ Len(countries) = 2
    /\ countries[1][2] = countries[2][2]
    /\ countries[1][1] # countries[1][2]
    /\ Len(jobs) = 2

\* C4 as stated: the job of country name c selects an asset of `all_assets` only
\* if the asset's group is c; it selects no asset of group "cloud_outputs" or
\* "azure_test" and no asset of a country of another name.
C4_AsStated ==
    ({"jobs", "all_assets"} \subseteq bound) =>
        \A i \in 1..Len(jobs) : \A a \in Elements(all_assets) :
            Matches(jobs[i].selection, a) =>
                /\ a.group = countries[i][2]
                /\ a.group \notin ReservedGroups
                /\ \A k \in 1..Len(countries) :
                      countries[k][2] # countries[i][2] => a \notin EntryAssets(k)

\* C4 (amended): the job of country name c selects an asset of `all_assets` only
\* if the asset's group is c; hence it selects no asset of a country of another
\* name, and no asset of group "cloud_outputs" or "azure_test" unless c is that
\* very group name.
C4_SelectsOwnGroupOnly ==
    ({"jobs", "all_assets"} \subseteq bound) =>
        \A i \in 1..Len(jobs) : \A a \in Elements(all_assets) :
            Matches(jobs[i].selection, a) =>
                /\ a.group = countries[i][2]
                /\ (a.group \in ReservedGroups => countries[i][2] = a.group)
                /\ \A k \in 1..Len(countries) :
                      countries[k][2] # countries[i][2] => a \notin EntryAssets(k)

C4_Witness ==
    /\ {"jobs", "all_assets"} \subseteq bound
    /\ Len(jobs) = 2
    /\ countries[1][2] = "bel"
    /\ countries[2][2] = "cloud_outputs"
    /\ \E a \in Elements(all_assets) :
          a.module = "cloud_outputs" /\ Matches(jobs[2].selection, a)
                                     /\ ~Matches(jobs[1].selection, a)

\* C5: the ExperimentalWarning ignore-filter is installed exactly when the key
\* IGNORE_EXPERIMENTAL_WARNINGS is in the environment at import, whatever its
\* value, and it is already in place when any popgetter sub-module is imported.
C5_FilterBeforeImports ==
    /\ (ExperimentalWarningFilter \in warnfilters) =>
          "IGNORE_EXPERIMENTAL_WARNINGS" \in DOMAIN environAtImport
    /\ (imported # {} \/ Imported) =>
          ((ExperimentalWarningFilter \in warnfilters) <=>
           ("IGNORE_EXPERIMENTAL_WARNINGS" \in DOMAIN environAtImport))

C5_Witness ==
    /\ imported = {"popgetter.io_managers.azure", "popgetter.io_managers.local"}
    /\ getenv(environAtImport, "IGNORE_EXPERIMENTAL_WARNINGS") = <<"false">>
    /\ ExperimentalWarningFilter \in warnfilters

\* The back-end family of a mapping returned by resources_by_env().
Family(r) ==
    IF \A k \in IOManagerKeys : r[k].cls \in AzureClasses THEN "Azure" ELSE "Local"

\* C6: ENV is read once, at import: after the import, however ENV is changed,
\* every resources_by_env() call returns the family chosen at import, and the
\* assets and resources registered in `defs` are those of the import-time ENV.
C6_EnvReadOnce ==
    Imported =>
        /\ ret # <<>> =>
              /\ Family(ret[1]) = (IF ProdAtImport THEN "Azure" ELSE "Local")
              /\ Family(ret[1]) = Family(resources)
              /\ ("azure_general_io_manager" \in DOMAIN ret[1]) <=> ProdAtImport
        /\ defs.assets = AllAssetsOf(countries, ProdAtImport)
        /\ defs.resources = DictMerge(FixedResources, resources_by_env(ProdAtImport))

C6_Witness ==
    /\ Imported
    /\ ret # <<>>
    /\ ~ProdAtImport
    /\ getenv(environ, "ENV") = <<"prod">>
    /\ Family(ret[1]) = "Local"

\* C7: once the module is imported, no operation changes `jobs`, `all_assets`,
\* `resources` or `defs`.
C7_ImmutableAfterImport ==
    [][Imported =>
          /\ jobs' = jobs
          /\ all_assets' = all_assets
          /\ resources' = resources
          /\ defs' = defs]_vars

C7_Witness ==
    /\ Imported
    /\ ret # <<>>
    /\ environ # environAtImport
    /\ Len(jobs) > 0
    /\ defs.jobs = jobs

C9_FixedResourcesKept ==
    "resources" \in bound =>
        /\ (IOManagerKeys \cup FixedKeys) \subseteq DOMAIN resources
        /\ DOMAIN resources_by_env(PROD) \cap FixedKeys = {}
        /\ resources["pipes_subprocess_client"] = New("PipesSubprocessClient", <<>>)
        /\ resources["staging_res"] =
              New("StagingDirResource", <<"popgetter/staging_dir">>)

C9_Witness ==
    /\ "resources" \in bound
    /\ ~PROD
    /\ resources["staging_res"].cls = "StagingDirResource"

NamesDistinct ==
    \A i, k \in 1..Len(countries) : i # k => countries[i][2] # countries[k][2]
NoReservedName ==
    \A i \in 1..Len(countries) : countries[i][2] \notin ReservedGroups

\* C10: with pairwise distinct country names, none of them "cloud_outputs" or
\* "azure_test", every asset of a country is selected by exactly one job, its
\* own country's, and job names are pairwise distinct; two entries of the same
\* name give two jobs of the same name, each selecting both entries' assets.
C10_JobsPartitionCountryAssets ==
    ({"jobs", "all_assets"} \subseteq bound) =>
        /\ (NamesDistinct /\ NoReservedName) =>
              /\ \A i \in 1..Len(countries) : \A a \in EntryAssets(i) :
                    a \in Elements(all_assets) /\ SelectingJobs(a) = {i}
              /\ \A i, k \in 1..Len(jobs) : i # k => jobs[i].name # jobs[k].name
        /\ \A i, k \in 1..Len(countries) :
              (i # k /\ countries[i][2] = countries[k][2]) =>
                  /\ jobs[i].name = jobs[k].name
                  /\ \A a \in EntryAssets(i) \cup EntryAssets(k) :
                        Matches(jobs[i].selection, a) /\ Matches(jobs[k].selection, a)

C10_Witness ==
    /\ {"jobs", "all_assets"} \subseteq bound
    /\ Len(countries) = 2
    /\ NamesDistinct /\ NoReservedName
    /\ countries[1][1] = countries[2][1]
    /\ \A a \in EntryAssets(2) : SelectingJobs(a) = {2}

====
